---- MODULE Spec2Model ----
(***************************************************************************)
(* Model of FoldOptLib's knowledge-constraint objective                    *)
(* (GeologicalKnowledge, geological_knowledge.py) and of its Solver        *)
(* facade (solvers.py).                                                    *)
(*                                                                         *)
(* Numbers are fixed-point: a likelihood, and every number added to one,   *)
(* is held as an integer number of thousandths.  A parameter vector theta  *)
(* is held as the facts the code                                           *)
(* reads from it: whether it is a numpy array, its length, theta[3], and   *)
(* what the external feature extractors return for it.                     *)
(***************************************************************************)
EXTENDS Integers, Sequences, FiniteSets, TLC

VARIABLES
    constraints,              \* self.constraints: sequence of [key, rec], in insertion order
    constraint_function_map,  \* self.constraint_function_map: NoneMap or a dict
    x,                        \* self.x, the fold frame coordinates
    constraint_names,         \* self.constraint_names
    last,                     \* the last finished call on the instance and its outcome
    solver,                   \* Solver.solver
    kwargs,                   \* Solver.kwargs
    looked,                   \* the last Solver.__getitem__ and what it gave
    backend,                  \* the last backend call of the Solver and how it ended
    pc,                       \* concurrent evaluations: position of each evaluation
    ctheta,                   \* concurrent evaluations: theta of each evaluation
    idx,                      \* concurrent evaluations: loop position in constraint_names
    total,                    \* concurrent evaluations: total_objective_value of each
    localmap,                 \* concurrent evaluations: the dict being built by each
    interfered                \* evaluations whose loop saw another evaluation rebind the map

vars == <<constraints, constraint_function_map, x, constraint_names, last,
          solver, kwargs, looked, backend, pc, ctheta, idx, total, localmap, interfered>>

objvars == <<constraints, constraint_function_map, x, constraint_names, last>>
solvervars == <<solver, kwargs, looked, backend>>
concvars == <<pc, ctheta, idx, total, localmap, interfered>>

(***************************************************************************)
(* Bounds of the model.                                                    *)
(***************************************************************************)
MaxEntries == 2
MaxVal == 2
NumEvals == 2

(***************************************************************************)
(* Program constants.                                                      *)
(***************************************************************************)
NoInterceptPenalty == 999
LinspaceNum == 100
MinThetaLen == 4

RECURSIVE SeqSum(_)
SeqSum(s) == IF s = <<>> THEN 0 ELSE Head(s) + SeqSum(Tail(s))

RECURSIVE SetSum(_, _)
SetSum(S, f) == IF S = {} THEN 0
                ELSE LET e == CHOOSE e \in S : TRUE IN f[e] + SetSum(S \ {e}, f)

Range(s) == {s[i] : i \in 1..Len(s)}

(***************************************************************************)
(* Outcomes of a call: a returned value or a raised exception, with the    *)
(* feature extractors the call invoked and the spec keys whose record it   *)
(* read on the way.                                                        *)
(***************************************************************************)
Ret(v, calls, reads) == [kind |-> "value", val |-> v, calls |-> calls, reads |-> reads]
Raise(e, calls, reads) == [kind |-> e, val |-> 0, calls |-> calls, reads |-> reads]

(***************************************************************************)
(* The likelihood primitive: -log N(v | mu, sigma) in thousandths,         *)
(* 1000*ln(sigma*sqrt(2*pi)) + 1000*(v - mu)^2 / (2*sigma^2).  The value v *)
(* is the fraction num/den so that linspace points are exact.              *)
(***************************************************************************)
LogNorm(sigma) ==
    CASE sigma = 1 -> 919
      [] sigma = 2 -> 1612
      [] sigma = 3 -> 2018
      [] sigma = 4 -> 2305
      [] OTHER -> 2528

NegLogLikFrac(num, den, mu, sigma) ==
    LogNorm(sigma)
      + (1000 * (num - den * mu) * (num - den * mu)) \div (2 * sigma * sigma * den * den)

gaussian_log_likelihood(v, mu, sigma) == 0 - NegLogLikFrac(v, 1, mu, sigma)

\* a number of the code, in the unit the likelihoods are held in
Thousandths(v) == 1000 * v

(***************************************************************************)
(* theta and the collaborators that read it.                               *)
(***************************************************************************)
Theta(arr, n, t3, tight, asym, ints) ==
    [isarray |-> arr, len |-> n, t3 |-> t3, tightness |-> tight,
     asymmetry |-> asym, intercepts |-> ints]

intercept_function(xs, theta) == theta.intercepts
calculate_tightness(theta) == theta.tightness
calculate_asymmetry(theta) == theta.asymmetry

\* the module-level function check_fourier_parameters
check_fourier_parameters(theta) ==
    IF ~theta.isarray THEN "TypeError"
    ELSE IF theta.len < MinThetaLen THEN "ValueError"
    ELSE "ok"

(***************************************************************************)
(* Attribute lookup on a GeologicalKnowledge instance: the names __init__  *)
(* binds, the names the class body defines, and the two shape descriptors  *)
(* the instance takes from SPlotProcessor.  A name bound at module level   *)
(* is not an attribute of the instance.                                    *)
(***************************************************************************)
InstanceAttrs == {"x", "constraints", "constraint_names", "constraint_function_map",
                  "intercept_function", "splot_function"}

ClassAttrs == {"__init__", "axial_trace_objective_function", "wavelength_objective_function",
               "axis_wavelength_objective_function", "tightness_objective_function",
               "hinge_angle_objective_function", "asymmetry_objective_function",
               "setup_constraint_functions", "__call__", "prepare_and_setup_constraints"}

InheritedAttrs == {"calculate_tightness", "calculate_asymmetry"}

\* self.<name>
Resolves(name) == name \in InstanceAttrs \cup ClassAttrs \cup InheritedAttrs

\* self.check_fourier_parameters(theta): the lookup of the attribute, then
\* the call of what it gave
self_check_fourier_parameters(theta) ==
    IF ~Resolves("check_fourier_parameters") THEN "AttributeError"
    ELSE check_fourier_parameters(theta)

(***************************************************************************)
(* The constraint dictionary.  A record is a dict of fields, or a value    *)
(* that is no dict at all.                                                 *)
(***************************************************************************)
Fields == {"lb", "ub", "mu", "sigma", "w"}

HasKey(c, k) == \E i \in 1..Len(c) : c[i].key = k
Item(c, k) == c[CHOOSE i \in 1..Len(c) : c[i].key = k].rec

\* "axial_trace" in key
ContainsAxialTrace(k) == k \in {"axial_traces", "axial_trace_1", "axial_trace_2"}

\* rec[f] for each f of fs in turn: "ok", or the first exception
ReadRec(rec, fs) ==
    IF ~rec.isdict THEN "TypeError"
    ELSE IF \E i \in 1..Len(fs) : fs[i] \notin DOMAIN rec.fields THEN "KeyError"
    ELSE "ok"

\* self.constraints[k][f] for each f of fs in turn
ReadItem(c, k, fs) == IF ~HasKey(c, k) THEN "KeyError" ELSE ReadRec(Item(c, k), fs)

ReadsOf(c, k) == IF HasKey(c, k) THEN {k} ELSE {}

(***************************************************************************)
(* The six sub-objectives.  Each starts with self.check_fourier_parameters, *)
(* then reads its record, then extracts its feature.                       *)
(***************************************************************************)
\* np.argmin: the first index of the minimum
argmin(d) == CHOOSE j \in DOMAIN d :
                /\ \A k \in DOMAIN d : d[j] <= d[k]
                /\ \A k \in DOMAIN d : k < j => d[k] > d[j]

RECURSIVE AxialTraceLoop(_, _, _, _, _)
AxialTraceLoop(c, i, intercepts, likelihood, reads) ==
    IF i > Len(c) THEN Ret(likelihood, {"intercept_function"}, reads)
    ELSE IF ~ContainsAxialTrace(c[i].key)
         THEN AxialTraceLoop(c, i + 1, intercepts, likelihood, reads)
    ELSE LET trace == c[i].rec
             rd == ReadRec(trace, <<"mu", "sigma", "w">>)
         IN  IF rd # "ok"
             THEN Raise(rd, {"intercept_function"}, reads \cup {c[i].key})
             ELSE LET mu == trace.fields["mu"]
                      sigma == trace.fields["sigma"]
                      w == trace.fields["w"]
                      dist == [j \in 1..Len(intercepts) |-> mu - intercepts[j]]
                      sel == intercepts[argmin(dist)]
                  IN  AxialTraceLoop(c, i + 1, intercepts,
                                     likelihood + (0 - gaussian_log_likelihood(sel, mu, sigma)) * w,
                                     reads \cup {c[i].key})

axial_trace_objective_function(c, xs, theta) ==
    LET chk == self_check_fourier_parameters(theta) IN
    IF chk # "ok" THEN Raise(chk, {}, {})
    ELSE LET intercepts == intercept_function(xs, theta) IN
         IF Len(intercepts) = 0
         THEN Ret(Thousandths(NoInterceptPenalty), {"intercept_function"}, {})
         ELSE AxialTraceLoop(c, 1, intercepts, 0, {})

wavelength_objective_function(c, xs, theta) ==
    LET chk == self_check_fourier_parameters(theta) IN
    IF chk # "ok" THEN Raise(chk, {}, {})
    ELSE LET rd == ReadItem(c, "fold_wavelength", <<"mu", "sigma">>) IN
         IF rd # "ok" THEN Raise(rd, {}, ReadsOf(c, "fold_wavelength"))
         ELSE LET rec == Item(c, "fold_wavelength")
                  likelihood == 0 - gaussian_log_likelihood(theta.t3, rec.fields["mu"],
                                                            rec.fields["sigma"])
                  rw == ReadRec(rec, <<"w">>)
              IN  IF rw # "ok" THEN Raise(rw, {}, {"fold_wavelength"})
                  ELSE Ret(likelihood * rec.fields["w"], {}, {"fold_wavelength"})

axis_wavelength_objective_function(c, xs, theta) ==
    LET chk == self_check_fourier_parameters(theta) IN
    IF chk # "ok" THEN Raise(chk, {}, {})
    ELSE LET rd == ReadItem(c, "axis_wavelength", <<"mu", "sigma">>) IN
         IF rd # "ok" THEN Raise(rd, {}, ReadsOf(c, "axis_wavelength"))
         ELSE LET rec == Item(c, "axis_wavelength")
                  likelihood == 0 - gaussian_log_likelihood(theta.t3, rec.fields["mu"],
                                                            rec.fields["sigma"])
                  rw == ReadRec(rec, <<"w">>)
              IN  IF rw # "ok" THEN Raise(rw, {}, {"axis_wavelength"})
                  ELSE Ret(likelihood * rec.fields["w"], {}, {"axis_wavelength"})

tightness_objective_function(c, xs, theta) ==
    LET chk == self_check_fourier_parameters(theta) IN
    IF chk # "ok" THEN Raise(chk, {}, {})
    ELSE LET rd == ReadItem(c, "tightness", <<"mu", "sigma", "w">>) IN
         IF rd # "ok" THEN Raise(rd, {}, ReadsOf(c, "tightness"))
         ELSE LET rec == Item(c, "tightness")
                  tightness == calculate_tightness(theta)
                  likelihood == 0 - gaussian_log_likelihood(tightness, rec.fields["mu"],
                                                            rec.fields["sigma"])
              IN  Ret(likelihood * rec.fields["w"], {"calculate_tightness"}, {"tightness"})

hinge_angle_objective_function(c, xs, theta) ==
    LET chk == self_check_fourier_parameters(theta) IN
    IF chk # "ok" THEN Raise(chk, {}, {})
    ELSE LET rd == ReadItem(c, "hinge_angle", <<"mu", "sigma", "w">>) IN
         IF rd # "ok" THEN Raise(rd, {}, ReadsOf(c, "hinge_angle"))
         ELSE LET rec == Item(c, "hinge_angle")
                  hinge_angle == calculate_tightness(theta)
                  likelihood == 0 - gaussian_log_likelihood(hinge_angle, rec.fields["mu"],
                                                            rec.fields["sigma"])
              IN  Ret(likelihood * rec.fields["w"], {"calculate_tightness"}, {"hinge_angle"})

asymmetry_objective_function(c, xs, theta) ==
    LET chk == self_check_fourier_parameters(theta) IN
    IF chk # "ok" THEN Raise(chk, {}, {})
    ELSE LET rd == ReadItem(c, "asymmetry", <<"mu", "sigma", "w">>) IN
         IF rd # "ok" THEN Raise(rd, {}, ReadsOf(c, "asymmetry"))
         ELSE LET rec == Item(c, "asymmetry")
                  asymmetry == calculate_asymmetry(theta)
                  likelihood == 0 - gaussian_log_likelihood(asymmetry, rec.fields["mu"],
                                                            rec.fields["sigma"])
              IN  Ret(likelihood * rec.fields["w"], {"calculate_asymmetry"}, {"asymmetry"})

(***************************************************************************)
(* The function map and the calls through it.  A handler is held by the    *)
(* name of the method it is bound to.                                      *)
(***************************************************************************)
ConstraintNames == <<"asymmetry", "tightness", "fold_wavelength", "axial_traces",
                     "hinge_angle", "axis_wavelength">>

NoneMap == [tag |-> "None"]
Dict(items) == [tag |-> "dict", items |-> items]

setup_constraint_functions ==
    Dict([n \in {"asymmetry", "tightness", "fold_wavelength", "axis_wavelength",
                 "axial_traces", "hinge_angle"} |->
            CASE n = "asymmetry" -> "asymmetry_objective_function"
              [] n = "tightness" -> "tightness_objective_function"
              [] n = "fold_wavelength" -> "wavelength_objective_function"
              [] n = "axis_wavelength" -> "axis_wavelength_objective_function"
              [] n = "axial_traces" -> "axial_trace_objective_function"
              [] OTHER -> "hinge_angle_objective_function"])

Handlers == {"asymmetry_objective_function", "tightness_objective_function",
             "wavelength_objective_function", "axis_wavelength_objective_function",
             "axial_trace_objective_function", "hinge_angle_objective_function"}

\* calling a bound method of the instance
CallHandler(h, c, xs, theta) ==
    CASE h = "asymmetry_objective_function" -> asymmetry_objective_function(c, xs, theta)
      [] h = "tightness_objective_function" -> tightness_objective_function(c, xs, theta)
      [] h = "wavelength_objective_function" -> wavelength_objective_function(c, xs, theta)
      [] h = "axis_wavelength_objective_function" ->
             axis_wavelength_objective_function(c, xs, theta)
      [] h = "axial_trace_objective_function" -> axial_trace_objective_function(c, xs, theta)
      [] OTHER -> hinge_angle_objective_function(c, xs, theta)

\* self.constraint_function_map[key](theta)
Dispatch(fmap, key, c, xs, theta) ==
    IF fmap.tag = "None" THEN Raise("TypeError", {}, {})
    ELSE IF key \notin DOMAIN fmap.items THEN Raise("KeyError", {}, {})
    ELSE CallHandler(fmap.items[key], c, xs, theta)

\* the loop of __call__ over self.constraint_names, from position i
RECURSIVE TotalLoop(_, _, _, _, _, _, _, _, _)
TotalLoop(c, xs, theta, fmap, names, i, acc, calls, reads) ==
    IF i > Len(names) THEN Ret(acc, calls, reads)
    ELSE IF ~HasKey(c, names[i])
         THEN TotalLoop(c, xs, theta, fmap, names, i + 1, acc, calls, reads)
    ELSE LET r == Dispatch(fmap, names[i], c, xs, theta) IN
         IF r.kind # "value" THEN Raise(r.kind, calls \cup r.calls, reads \cup r.reads)
         ELSE TotalLoop(c, xs, theta, fmap, names, i + 1, acc + r.val,
                        calls \cup r.calls, reads \cup r.reads)

\* GeologicalKnowledge.__call__: the outcome
total_objective(c, xs, names, theta) ==
    LET chk == self_check_fourier_parameters(theta) IN
    IF chk # "ok" THEN Raise(chk, {}, {})
    ELSE TotalLoop(c, xs, theta, setup_constraint_functions, names, 1, 0, {}, {})

\* the map rebuilt before theta is validated
MapAfterCall_BuildFirst(fmap, theta) == setup_constraint_functions

\* GeologicalKnowledge.__call__: the function map it leaves
MapAfterCall(fmap, theta) ==
    IF self_check_fourier_parameters(theta) # "ok" THEN fmap ELSE setup_constraint_functions

(***************************************************************************)
(* Restricted-mode constraints.                                            *)
(***************************************************************************)
\* -gaussian_log_likelihood(np.linspace(lb, ub, 100), mu, sigma)
LinspaceVal(lb, ub, mu, sigma) ==
    [i \in 0..(LinspaceNum - 1) |->
        NegLogLikFrac((LinspaceNum - 1) * lb + i * (ub - lb), LinspaceNum - 1, mu, sigma)]

ArrMin(a) == CHOOSE v \in {a[i] : i \in DOMAIN a} : \A i \in DOMAIN a : v <= a[i]
ArrMax(a) == CHOOSE v \in {a[i] : i \in DOMAIN a} : \A i \in DOMAIN a : v >= a[i]

\* NonlinearConstraint(fun, lb, ub, jac='2-point', hess=BFGS())
NonlinearConstraint(fun, lo, hi) ==
    [fun |-> fun, lb |-> lo, ub |-> hi, jac |-> "2-point", hess |-> "BFGS"]

RECURSIVE PrepareLoop(_, _, _, _)
PrepareLoop(c, fmap, i, out) ==
    IF i > Len(c) THEN Ret(out, {}, Range([j \in 1..Len(c) |-> c[j].key]))
    ELSE LET constraint_name == c[i].key
             constraint_info == c[i].rec
             seen == Range([j \in 1..i |-> c[j].key])
         IN  IF ~constraint_info.isdict THEN Raise("TypeError", {}, seen)
             ELSE LET rd == ReadRec(constraint_info, <<"lb", "ub", "mu", "sigma">>) IN
                  IF rd # "ok" THEN Raise(rd, {}, seen)
                  ELSE LET val == LinspaceVal(constraint_info.fields["lb"],
                                              constraint_info.fields["ub"],
                                              constraint_info.fields["mu"],
                                              constraint_info.fields["sigma"])
                       IN  IF constraint_name \notin DOMAIN fmap.items
                           THEN Raise("KeyError", {}, seen)
                           ELSE PrepareLoop(c, fmap, i + 1,
                                    Append(out, NonlinearConstraint(fmap.items[constraint_name],
                                                                    ArrMin(val), ArrMax(val))))

\* entries that cannot be turned into a descriptor are passed over
RECURSIVE PrepareLoopSkipping(_, _, _, _)
PrepareLoopSkipping(c, fmap, i, out) ==
    IF i > Len(c) THEN Ret(out, {}, Range([j \in 1..Len(c) |-> c[j].key]))
    ELSE IF \/ ReadRec(c[i].rec, <<"lb", "ub", "mu", "sigma">>) # "ok"
            \/ c[i].key \notin DOMAIN fmap.items
         THEN PrepareLoopSkipping(c, fmap, i + 1, out)
    ELSE LET val == LinspaceVal(c[i].rec.fields["lb"], c[i].rec.fields["ub"],
                                c[i].rec.fields["mu"], c[i].rec.fields["sigma"])
         IN  PrepareLoopSkipping(c, fmap, i + 1,
                 Append(out, NonlinearConstraint(fmap.items[c[i].key], ArrMin(val), ArrMax(val))))

prepare_and_setup_constraints_Skipping(c) ==
    PrepareLoopSkipping(c, setup_constraint_functions, 1, <<>>)

\* GeologicalKnowledge.prepare_and_setup_constraints: the outcome
prepare_and_setup_constraints(c) == PrepareLoop(c, setup_constraint_functions, 1, <<>>)

(***************************************************************************)
(* Inputs: the constraint dictionaries an instance is built with and the   *)
(* parameter vectors it is called with.                                    *)
(***************************************************************************)
KeyUniverse == {"asymmetry", "tightness", "fold_wavelength", "axial_traces",
                "hinge_angle", "axis_wavelength", "axial_trace_1"}

KeyIndex(k) ==
    CASE k = "asymmetry" -> 1
      [] k = "tightness" -> 2
      [] k = "fold_wavelength" -> 3
      [] k = "axial_traces" -> 4
      [] k = "hinge_angle" -> 5
      [] k = "axis_wavelength" -> 6
      [] OTHER -> 7

RecOf(fs) == [isdict |-> TRUE, fields |-> fs]
NotADict == [isdict |-> FALSE, fields |-> [f \in {} |-> 0]]

\* {'lb':, 'ub':, 'mu':, 'sigma':, 'w':} with values that differ from key to key
FullRec(k, mu) ==
    RecOf([f \in Fields |->
             CASE f = "lb" -> 0
               [] f = "ub" -> MaxVal
               [] f = "mu" -> mu
               [] f = "sigma" -> 1 + (KeyIndex(k) % 2)
               [] OTHER -> 1 + ((KeyIndex(k) \div 2) % 2)])

DefaultMu(k) == KeyIndex(k) % (MaxVal + 1)

Restrict(rec, fs) == RecOf([f \in fs |-> rec.fields[f]])

Variants == {"default", "shift", "nobounds", "inverted", "now", "notdict"}

VariantRec(k, v) ==
    CASE v = "default" -> FullRec(k, DefaultMu(k))
      [] v = "shift" -> FullRec(k, (DefaultMu(k) + 1) % (MaxVal + 1))
      [] v = "nobounds" -> Restrict(FullRec(k, DefaultMu(k)), {"mu", "sigma", "w"})
      [] v = "inverted" -> RecOf([FullRec(k, DefaultMu(k)).fields EXCEPT
                                    !["lb"] = MaxVal, !["ub"] = 0])
      [] v = "now" -> Restrict(FullRec(k, DefaultMu(k)), {"lb", "ub", "mu", "sigma"})
      [] OTHER -> NotADict

\* the orders in which a dictionary may hold its keys: each set of at most
\* MaxEntries keys, in the order of the recognised-name list or against it
KeySeqs == UNION {{ks \in [1..n -> KeyUniverse] :
                      \/ \A i \in 1..(n - 1) : KeyIndex(ks[i]) < KeyIndex(ks[i + 1])
                      \/ \A i \in 1..(n - 1) : KeyIndex(ks[i]) > KeyIndex(ks[i + 1])}
                  : n \in 0..MaxEntries}

\* a dictionary with the keys ks in that order, entry pos (if any) in variant v
MkSpec(ks, pos, v) ==
    [i \in 1..Len(ks) |->
        [key |-> ks[i], rec |-> VariantRec(ks[i], IF i = pos THEN v ELSE "default")]]

ConstraintSpecs == {MkSpec(ks, pos, v) : ks \in KeySeqs, pos \in 0..MaxEntries, v \in Variants}

XCoords == [i \in 1..(MaxVal + 1) |-> i - 1]

NoTheta == Theta(FALSE, 0, 0, 0, 0, <<>>)

InvalidThetas == {Theta(FALSE, 5, 0, 0, 0, <<>>), Theta(FALSE, 2, 0, 0, 0, <<>>),
                  Theta(TRUE, 3, 0, 0, 0, <<>>)}

\* valid vectors: no intercept, one, two and three; tightness and asymmetry differ
ValidThetas == {Theta(TRUE, 4, 0, MaxVal, 1, <<>>),
                Theta(TRUE, 5, 1, 1, 0, <<1>>),
                Theta(TRUE, 4, MaxVal, 0, MaxVal, <<0, MaxVal>>),
                Theta(TRUE, 5, 1, MaxVal, 0, <<0, 1, MaxVal>>)}

ThetaSet == InvalidThetas \cup ValidThetas

(***************************************************************************)
(* One GeologicalKnowledge instance, called sequentially.                  *)
(***************************************************************************)
SolverIdle ==
    /\ solver = "differential_evolution"
    /\ kwargs = {}
    /\ looked = [asked |-> "none", kind |-> "none", got |-> "none"]
    /\ backend = [fn |-> "none", extra |-> {}, kind |-> "none", success |-> FALSE]

ConcIdle ==
    /\ pc = [p \in {} |-> "idle"]
    /\ ctheta = [p \in {} |-> NoTheta]
    /\ idx = [p \in {} |-> 0]
    /\ total = [p \in {} |-> 0]
    /\ localmap = [p \in {} |-> NoneMap]
    /\ interfered = {}

\* GeologicalKnowledge.__init__
Construct(xs, c) ==
    /\ x = xs
    /\ constraints = c
    /\ constraint_names = ConstraintNames
    /\ constraint_function_map = NoneMap
    /\ last = [op |-> "init", theta |-> NoTheta, out |-> Ret(0, {}, {})]

Init ==
    /\ \E c \in ConstraintSpecs : Construct(XCoords, c)
    /\ SolverIdle
    /\ ConcIdle

\* instance(theta)
CallTotal(theta) ==
    /\ last' = [op |-> "total", theta |-> theta,
                out |-> total_objective(constraints, x, constraint_names, theta)]
    /\ constraint_function_map' = MapAfterCall(constraint_function_map, theta)
    /\ UNCHANGED <<constraints, x, constraint_names>>

\* instance.<sub-objective>(theta)
CallSub(h, theta) ==
    /\ last' = [op |-> h, theta |-> theta, out |-> CallHandler(h, constraints, x, theta)]
    /\ UNCHANGED <<constraints, x, constraint_names, constraint_function_map>>

\* the bounds taken out of each record as they are read (dict.pop)
CallPrepare_PoppingBounds ==
    /\ last' = [op |-> "prepare", theta |-> NoTheta,
                out |-> prepare_and_setup_constraints(constraints)]
    /\ constraint_function_map' = setup_constraint_functions
    /\ constraints' = [i \in 1..Len(constraints) |->
                          IF constraints[i].rec.isdict
                          THEN [key |-> constraints[i].key,
                                rec |-> Restrict(constraints[i].rec,
                                                 DOMAIN constraints[i].rec.fields \ {"lb", "ub"})]
                          ELSE constraints[i]]
    /\ UNCHANGED <<x, constraint_names>>

\* instance.prepare_and_setup_constraints()
CallPrepare ==
    /\ last' = [op |-> "prepare", theta |-> NoTheta,
                out |-> prepare_and_setup_constraints(constraints)]
    /\ constraint_function_map' = setup_constraint_functions
    /\ UNCHANGED <<constraints, x, constraint_names>>

\* instance.setup_constraint_functions(): binds the map and returns None
CallSetup ==
    /\ last' = [op |-> "setup", theta |-> NoTheta, out |-> Ret("None", {}, {})]
    /\ constraint_function_map' = setup_constraint_functions
    /\ UNCHANGED <<constraints, x, constraint_names>>

Next ==
    \/ \E theta \in ThetaSet : CallTotal(theta) /\ UNCHANGED <<solvervars, concvars>>
    \/ \E h \in Handlers, theta \in ThetaSet : CallSub(h, theta) /\ UNCHANGED <<solvervars, concvars>>
    \/ CallPrepare /\ UNCHANGED <<solvervars, concvars>>
    \/ CallSetup /\ UNCHANGED <<solvervars, concvars>>

Spec == Init /\ [][Next]_vars

(***************************************************************************)
(* Properties of the sequential instance.                                  *)
(***************************************************************************)
ValidTheta(theta) == theta.isarray /\ theta.len >= MinThetaLen

ObjectiveOps == Handlers \cup {"total"}

\* the sub-objective a recognised name stands for
SubObjectiveOf(n, c, xs, theta) ==
    CASE n = "asymmetry" -> asymmetry_objective_function(c, xs, theta)
      [] n = "tightness" -> tightness_objective_function(c, xs, theta)
      [] n = "fold_wavelength" -> wavelength_objective_function(c, xs, theta)
      [] n = "axial_traces" -> axial_trace_objective_function(c, xs, theta)
      [] n = "hinge_angle" -> hinge_angle_objective_function(c, xs, theta)
      [] OTHER -> axis_wavelength_objective_function(c, xs, theta)

PresentNames(c) == {n \in Range(ConstraintNames) : HasKey(c, n)}

Perms(n) == {f \in [1..n -> 1..n] : \A i, j \in 1..n : i # j => f[i] # f[j]}
Reordered(c, f) == [i \in 1..Len(c) |-> c[f[i]]]

\* every record of the spec is a mapping with mu, sigma and w
Readable(c) == \A i \in 1..Len(c) : ReadRec(c[i].rec, <<"mu", "sigma", "w">>) = "ok"

\* C1: a total_objective call with a valid theta on a spec of readable
\* records returns the sum of the sub-objectives, each computed on its own,
\* of the recognised names that are keys of the spec; absent names add
\* nothing, and the value is the same for every insertion order of the keys.
C1_TotalIsSumOfPresent ==
    (last.op = "total" /\ ValidTheta(last.theta) /\ Readable(constraints)) =>
        LET present == PresentNames(constraints)
            subs == [n \in present |-> SubObjectiveOf(n, constraints, x, last.theta)]
            vals == [n \in present |-> subs[n].val]
        IN  /\ last.out.kind = "value"
            /\ \A n \in present : subs[n].kind = "value"
            /\ last.out.val = SetSum(present, vals)
            /\ \A f \in Perms(Len(constraints)) :
                  LET o == total_objective(Reordered(constraints, f), x,
                                           constraint_names, last.theta)
                  IN  o.kind = "value" /\ o.val = last.out.val

\* C2: a call of a sub-objective or of total_objective with a theta that is
\* no numpy array raises TypeError, with an array of fewer than 4 elements
\* ValueError, and it has then called no extractor and read no record.
C2_ValidationFirst ==
    (last.op \in ObjectiveOps /\ ~ValidTheta(last.theta)) =>
        /\ last.out.kind = (IF ~last.theta.isarray THEN "TypeError" ELSE "ValueError")
        /\ last.out.calls = {}
        /\ last.out.reads = {}

Abs(a) == IF a < 0 THEN 0 - a ELSE a

AxialEntries(c) == SelectSeq(c, LAMBDA e : ContainsAxialTrace(e.key))

\* an intercept at minimum absolute distance to mu
Nearest(intercepts, mu) ==
    CHOOSE v \in Range(intercepts) : \A u \in Range(intercepts) : Abs(mu - v) <= Abs(mu - u)

\* C3: with intercepts, each entry whose key contains axial_trace adds
\* -loglikelihood(s, mu, sigma) * w to the result, s being the intercept
\* nearest to that entry's own mu.
C3_NearestIntercept ==
    LET entries == AxialEntries(constraints) IN
    (/\ last.op = "axial_trace_objective_function"
     /\ ValidTheta(last.theta)
     /\ Len(last.theta.intercepts) > 0
     /\ \A i \in 1..Len(entries) : ReadRec(entries[i].rec, <<"mu", "sigma", "w">>) = "ok") =>
        /\ last.out.kind = "value"
        /\ last.out.val =
             SeqSum([i \in 1..Len(entries) |->
                       LET f == entries[i].rec.fields
                       IN  (0 - gaussian_log_likelihood(
                                  Nearest(last.theta.intercepts, f["mu"]), f["mu"], f["sigma"]))
                           * f["w"]])

\* C4: with a valid theta and no intercept the axial-trace sub-objective
\* returns 999 and reads no record, whatever the axial-trace entries are.
C4_NoInterceptPenalty ==
    (/\ last.op = "axial_trace_objective_function"
     /\ ValidTheta(last.theta)
     /\ Len(last.theta.intercepts) = 0) =>
        /\ last.out.kind = "value"
        /\ last.out.val = Thousandths(NoInterceptPenalty)
        /\ last.out.reads = {}
        /\ last.out.calls = {"intercept_function"}

WithoutAxial(c) == SelectSeq(c, LAMBDA e : ~ContainsAxialTrace(e.key))

\* C5: in total_objective the keys containing axial_trace add what the
\* axial-trace sub-objective gives for them, whether or not the key
\* axial_traces itself is in the spec.
C5_AxialKeysAlwaysCounted ==
    (/\ last.op = "total"
     /\ ValidTheta(last.theta)
     /\ Readable(constraints)
     /\ Len(AxialEntries(constraints)) > 0) =>
        LET axial == axial_trace_objective_function(constraints, x, last.theta)
            others == total_objective(WithoutAxial(constraints), x, constraint_names,
                                      last.theta)
        IN  /\ last.out.kind = "value"
            /\ axial.kind = "value"
            /\ others.kind = "value"
            /\ last.out.val - others.val = axial.val

HasBounds(rec) ==
    /\ ReadRec(rec, <<"lb", "ub", "mu", "sigma">>) = "ok"
    /\ rec.fields["lb"] < rec.fields["ub"]

Bounded(c) == SelectSeq(c, LAMBDA e : HasBounds(e.rec))

\* the sub-objective that stands for a spec key
HandlerOfKey(k) ==
    CASE k = "asymmetry" -> "asymmetry_objective_function"
      [] k = "tightness" -> "tightness_objective_function"
      [] k = "fold_wavelength" -> "wavelength_objective_function"
      [] k = "hinge_angle" -> "hinge_angle_objective_function"
      [] k = "axis_wavelength" -> "axis_wavelength_objective_function"
      [] OTHER -> "axial_trace_objective_function"

\* C6: build_restricted_constraints returns one descriptor for each entry
\* that carries lb < ub, mu and sigma (axial_trace_1 included), in the
\* spec's key order, the i-th wrapping the i-th such key's sub-objective,
\* each with lower bound <= upper bound.
C6_OneDescriptorPerBoundedEntry ==
    (last.op = "prepare" /\ \A i \in 1..Len(constraints) : HasBounds(constraints[i].rec)) =>
        LET want == Bounded(constraints) IN
        /\ last.out.kind = "value"
        /\ Len(last.out.val) = Len(want)
        /\ \A i \in 1..Len(want) :
              /\ last.out.val[i].fun = HandlerOfKey(want[i].key)
              /\ last.out.val[i].lb <= last.out.val[i].ub

Buildable(e) ==
    /\ ReadRec(e.rec, <<"lb", "ub", "mu", "sigma">>) = "ok"
    /\ e.key \in Range(ConstraintNames)

\* C7 as stated: an entry that is no mapping with lb, ub, mu and sigma makes
\* build_restricted_constraints raise TypeError and return no list.
C7_BadEntryIsTypeError ==
    (/\ last.op = "prepare"
     /\ \E i \in 1..Len(constraints) :
           ReadRec(constraints[i].rec, <<"lb", "ub", "mu", "sigma">>) # "ok") =>
        last.out.kind = "TypeError"

\* C7, amended: build_restricted_constraints raises at the first entry, in
\* key order, that it cannot turn into a descriptor: TypeError when that
\* entry is no mapping, KeyError when it is a mapping without lb, ub, mu or
\* sigma or its key has no sub-objective.  It then returns no list, and the
\* instance holds nothing but the rebuilt function map.
C7_FirstBadEntryRaises ==
    (/\ last.op = "prepare"
     /\ \E i \in 1..Len(constraints) : ~Buildable(constraints[i])) =>
        LET bad == CHOOSE i \in 1..Len(constraints) :
                      /\ ~Buildable(constraints[i])
                      /\ \A j \in 1..(i - 1) : Buildable(constraints[j])
        IN  /\ last.out.kind = (IF constraints[bad].rec.isdict THEN "KeyError" ELSE "TypeError")
            /\ last.out.val = 0
            /\ constraint_function_map = setup_constraint_functions

\* a valid first entry, then one that is no mapping: TypeError, no list
C7_Witness ==
    /\ last.op = "prepare"
    /\ Len(constraints) = 2
    /\ Buildable(constraints[1])
    /\ ~constraints[2].rec.isdict
    /\ last.out.kind = "TypeError"
    /\ last.out.val = 0

(***************************************************************************)
(* The Solver facade.                                                      *)
(***************************************************************************)
SolverTypes == {"DIFFERENTIAL_EVOLUTION", "CONSTRAINED_TRUST_REGION",
                "UNCONSTRAINED_TRUST_REGION", "PARTICLE_SWARM"}

SolverNames == {"differential_evolution", "constrained_trust_region", "particle_swarm"}
SolverOptions == {"maxiter", "workers"}

\* Solver.__init__
SolverConstruct(name, options) ==
    /\ solver = name
    /\ kwargs = options
    /\ looked = [asked |-> "none", kind |-> "none", got |-> "none"]
    /\ backend = [fn |-> "none", extra |-> {}, kind |-> "none", success |-> FALSE]

\* the map without its reserved strategies
Solver_getitem_NoReserved(solver_type) ==
    LET solver_map == [t \in {"DIFFERENTIAL_EVOLUTION", "CONSTRAINED_TRUST_REGION"} |->
                          IF t = "DIFFERENTIAL_EVOLUTION" THEN "differential_evolution"
                          ELSE "constrained_trust_region"]
    IN  IF solver_type \in DOMAIN solver_map
        THEN [asked |-> solver_type, kind |-> "value", got |-> solver_map[solver_type]]
        ELSE [asked |-> solver_type, kind |-> "KeyError", got |-> "none"]

\* Solver.__getitem__
Solver_getitem(solver_type) ==
    LET solver_map == [t \in SolverTypes |->
                          CASE t = "DIFFERENTIAL_EVOLUTION" -> "differential_evolution"
                            [] t = "CONSTRAINED_TRUST_REGION" -> "constrained_trust_region"
                            [] t = "UNCONSTRAINED_TRUST_REGION" -> "None"
                            [] OTHER -> "None"]
    IN  IF solver_type \in DOMAIN solver_map
        THEN [asked |-> solver_type, kind |-> "value", got |-> solver_map[solver_type]]
        ELSE [asked |-> solver_type, kind |-> "KeyError", got |-> "none"]

\* the names bound at module level of solvers.py
ModuleGlobals == {"Callable", "Dict", "Any", "Tuple", "Union", "List", "numpy", "minimize",
                  "differential_evolution", "SolverType", "beartype", "Solver"}

\* evaluating the names of a call in turn inside a function with these parameters
RECURSIVE ResolveNames(_, _, _)
ResolveNames(names, params, i) ==
    IF i > Len(names) THEN "ok"
    ELSE IF names[i] \notin params \cup ModuleGlobals THEN "NameError"
    ELSE ResolveNames(names, params, i + 1)

DEParams == {"objective_function", "bounds", "init", "maxiter", "seed", "polish", "strategy",
             "mutation", "kwargs"}
DENames == <<"differential_evolution", "objective_function", "bounds", "init", "maxiter",
             "seed", "polish", "strategy", "mutation", "callback", "kwargs">>

\* Solver.differential_evolution: extra are the caller's further keywords,
\* converged is what the optimiser would report
Solver_differential_evolution(extra, converged) ==
    LET r == ResolveNames(DENames, DEParams, 1) IN
    IF r # "ok"
    THEN [fn |-> "differential_evolution", extra |-> extra, kind |-> r, success |-> FALSE]
    ELSE [fn |-> "differential_evolution", extra |-> extra, kind |-> "result",
          success |-> converged]

CTRParams == {"objective_function", "x0", "constraints", "kwargs"}
CTRNames == <<"minimize", "objective_function", "x0", "constraints", "kwargs">>

\* Solver.constrained_trust_region
Solver_constrained_trust_region(extra, converged) ==
    LET r == ResolveNames(CTRNames, CTRParams, 1) IN
    IF r # "ok"
    THEN [fn |-> "constrained_trust_region", extra |-> extra, kind |-> r, success |-> FALSE]
    ELSE [fn |-> "constrained_trust_region", extra |-> extra, kind |-> "result",
          success |-> converged]

InitSolver ==
    /\ \E name \in SolverNames, options \in SUBSET SolverOptions : SolverConstruct(name, options)
    /\ Construct(XCoords, <<>>)
    /\ ConcIdle

Lookup(t) ==
    /\ looked' = Solver_getitem(t)
    /\ UNCHANGED <<solver, kwargs, backend>>

CallDifferentialEvolution(extra, converged) ==
    /\ backend' = Solver_differential_evolution(extra, converged)
    /\ UNCHANGED <<solver, kwargs, looked>>

CallConstrainedTrustRegion(extra, converged) ==
    /\ backend' = Solver_constrained_trust_region(extra, converged)
    /\ UNCHANGED <<solver, kwargs, looked>>

NextSolver ==
    \/ \E t \in SolverTypes : Lookup(t) /\ UNCHANGED <<objvars, concvars>>
    \/ \E extra \in SUBSET {"callback", "workers"}, converged \in BOOLEAN :
          CallDifferentialEvolution(extra, converged) /\ UNCHANGED <<objvars, concvars>>
    \/ \E extra \in SUBSET {"callback", "tol"}, converged \in BOOLEAN :
          CallConstrainedTrustRegion(extra, converged) /\ UNCHANGED <<objvars, concvars>>

SpecSolver == InitSolver /\ [][NextSolver]_vars

\* C8: looking up any of the four strategies raises nothing and gives the
\* global search for DIFFERENTIAL_EVOLUTION, the constrained local search for
\* CONSTRAINED_TRUST_REGION and None for the two reserved ones, whatever
\* strategy and options the Solver was built with.
C8_LookupNeverRaises ==
    looked.asked \in SolverTypes =>
        /\ looked.kind = "value"
        /\ looked.got = (CASE looked.asked = "DIFFERENTIAL_EVOLUTION" -> "differential_evolution"
                           [] looked.asked = "CONSTRAINED_TRUST_REGION" -> "constrained_trust_region"
                           [] OTHER -> "None")

\* a reserved strategy looked up on a Solver built for another strategy, with options
C8_Witness ==
    /\ looked.asked = "PARTICLE_SWARM"
    /\ looked.kind = "value" /\ looked.got = "None"
    /\ solver = "constrained_trust_region"
    /\ kwargs # {}

\* C9: a call of either backend ends by returning a result record;
\* non-convergence is in the record, and the facade raises nothing itself.
C9_BackendsReturnRecord ==
    backend.fn # "none" => backend.kind = "result"

(***************************************************************************)
(* Several total_objective evaluations running on one instance at once,    *)
(* as the workers of the global search do.  An evaluation validates its    *)
(* theta, builds a new dict, binds it to self.constraint_function_map and  *)
(* then walks self.constraint_names, reading the shared map at each name.  *)
(***************************************************************************)
Procs == 1..NumEvals

ConcThetas == {Theta(TRUE, 4, 0, MaxVal, 1, <<>>),
               Theta(TRUE, 5, 1, MaxVal, 0, <<0, 1, MaxVal>>),
               Theta(TRUE, 4, MaxVal, 0, MaxVal, <<0, MaxVal>>),
               Theta(TRUE, 3, 0, 0, 0, <<>>)}

\* dictionaries of MaxEntries keys in the order of the name list, the first
\* of them tightness, any one entry possibly without its weight
ConcSpecs == {MkSpec(ks, pos, v) :
                 ks \in {s \in KeySeqs : /\ Len(s) = MaxEntries
                                         /\ s[1] = "tightness"
                                         /\ \A i \in 1..(Len(s) - 1) :
                                               KeyIndex(s[i]) < KeyIndex(s[i + 1])},
                 pos \in 0..1, v \in {"default", "now"}}

InitConc ==
    /\ \E c \in ConcSpecs : Construct(XCoords, c)
    /\ SolverIdle
    /\ pc = [p \in Procs |-> "check"]
    /\ ctheta \in {f \in [Procs -> ConcThetas] : \A p, q \in Procs : p # q => f[p] # f[q]}
    /\ idx = [p \in Procs |-> 1]
    /\ total = [p \in Procs |-> 0]
    /\ localmap = [p \in Procs |-> NoneMap]
    /\ interfered = {}

\* self.check_fourier_parameters(theta)
EvalCheck(p) ==
    /\ pc[p] = "check"
    /\ pc' = [pc EXCEPT ![p] = IF self_check_fourier_parameters(ctheta[p]) = "ok" THEN "build"
                               ELSE self_check_fourier_parameters(ctheta[p])]
    /\ UNCHANGED <<constraint_function_map, idx, total, localmap, interfered>>

\* setup_constraint_functions: the dict display is evaluated ...
EvalBuild(p) ==
    /\ pc[p] = "build"
    /\ localmap' = [localmap EXCEPT ![p] = setup_constraint_functions]
    /\ pc' = [pc EXCEPT ![p] = "store"]
    /\ UNCHANGED <<constraint_function_map, idx, total, interfered>>

\* ... and bound to self.constraint_function_map
EvalStore(p) ==
    /\ pc[p] = "store"
    /\ constraint_function_map' = localmap[p]
    /\ pc' = [pc EXCEPT ![p] = "loop"]
    /\ interfered' = interfered \cup
                       {q \in Procs \ {p} : pc[q] = "loop" /\ idx[q] > 1
                                            /\ idx[q] <= Len(constraint_names)}
    /\ UNCHANGED <<idx, total, localmap>>

\* one turn of the loop over self.constraint_names
EvalStep(p) ==
    /\ pc[p] = "loop"
    /\ idx[p] <= Len(constraint_names)
    /\ LET key == constraint_names[idx[p]] IN
       IF ~HasKey(constraints, key)
       THEN /\ idx' = [idx EXCEPT ![p] = @ + 1]
            /\ UNCHANGED <<pc, total>>
       ELSE LET r == Dispatch(constraint_function_map, key, constraints, x, ctheta[p]) IN
            IF r.kind # "value"
            THEN /\ pc' = [pc EXCEPT ![p] = r.kind]
                 /\ UNCHANGED <<idx, total>>
            ELSE /\ total' = [total EXCEPT ![p] = @ + r.val]
                 /\ idx' = [idx EXCEPT ![p] = @ + 1]
                 /\ UNCHANGED pc
    /\ UNCHANGED <<constraint_function_map, localmap, interfered>>

\* return total_objective_value
EvalReturn(p) ==
    /\ pc[p] = "loop"
    /\ idx[p] > Len(constraint_names)
    /\ pc' = [pc EXCEPT ![p] = "done"]
    /\ UNCHANGED <<constraint_function_map, idx, total, localmap, interfered>>

\* the steps an evaluation takes: the validation call ends every evaluation,
\* so that none comes to EvalBuild, EvalStore, EvalStep or EvalReturn
NextConc ==
    \E p \in Procs :
        /\ EvalCheck(p)
        /\ UNCHANGED <<constraints, x, constraint_names, last, ctheta, solvervars>>

SpecConc == InitConc /\ [][NextConc]_vars

Running == {"check", "build", "store", "loop"}

\* C10: under every interleaving an evaluation with a valid theta on a spec
\* of readable records ends by returning the value total_objective(theta)
\* returns when run alone.
C10_ConcurrentAsAlone ==
    \A p \in Procs :
        (/\ pc[p] \notin Running
         /\ ValidTheta(ctheta[p])
         /\ Readable(constraints)) =>
            LET alone == total_objective(constraints, x, constraint_names, ctheta[p]) IN
            /\ pc[p] = "done"
            /\ alone.kind = "value"
            /\ total[p] = alone.val

(***************************************************************************)
(* Frame and function-map properties of the sequential instance.           *)
(***************************************************************************)
\* C11: no call of a sub-objective, of total_objective or of
\* build_restricted_constraints, returning or raising, changes the
\* constraint spec, the frame coordinates or the recognised-name list.
C11_SpecAndFrameUnchanged ==
    [][/\ constraints' = constraints
       /\ x' = x
       /\ constraint_names' = constraint_names]_vars

\* a call that raised has changed the one thing a call may change, the
\* function map, on an instance whose spec holds a record with bounds
C11_Witness ==
    /\ last.op = "prepare"
    /\ last.out.kind = "KeyError"
    /\ constraint_function_map # NoneMap
    /\ \E i \in 1..Len(constraints) : HasBounds(constraints[i].rec)
    /\ x = XCoords
    /\ constraint_names = ConstraintNames

(***************************************************************************)
(* An instance whose spec holds a tightness and a hinge_angle record, each *)
(* with its own mu, sigma and w.                                           *)
(***************************************************************************)
TargetRecs == {RecOf([f \in {"mu", "sigma", "w"} |->
                        CASE f = "mu" -> mu [] f = "sigma" -> sigma [] OTHER -> w])
               : mu \in 0..MaxVal, sigma \in 1..2, w \in 1..2}

HingeSpecs == {<<[key |-> "tightness", rec |-> rt], [key |-> "hinge_angle", rec |-> rh]>>
               : rt \in TargetRecs, rh \in TargetRecs}

InitHinge ==
    /\ \E c \in HingeSpecs : Construct(XCoords, c)
    /\ SolverIdle
    /\ ConcIdle

SpecHinge == InitHinge /\ [][Next]_vars

SameTarget(c) ==
    \A f \in {"mu", "sigma", "w"} :
        Item(c, "hinge_angle").fields[f] = Item(c, "tightness").fields[f]

\* C12: with a valid theta and hinge_angle and tightness records of equal
\* mu, sigma and w, hinge_angle_objective returns what tightness_objective
\* returns.
C12_HingeAngleAsTightness ==
    (/\ last.op = "hinge_angle_objective_function"
     /\ ValidTheta(last.theta)
     /\ SameTarget(constraints)) =>
        /\ last.out.kind = "value"
        /\ tightness_objective_function(constraints, x, last.theta).kind = "value"
        /\ last.out.val = tightness_objective_function(constraints, x, last.theta).val

\* the six recognised names, each with its own sub-objective
ExpectedMap == Dict([n \in Range(ConstraintNames) |-> HandlerOfKey(n)])

\* the calls the claim names as building the function map:
\* build_restricted_constraints, and a total_objective call whose validation
\* call has passed
BuildsAsStated(l) ==
    \/ l.op = "prepare"
    \/ l.op = "total" /\ self_check_fourier_parameters(l.theta) = "ok"

\* C13 as stated: the function map is None at construction and stays None
\* until a total_objective call passes validation or
\* build_restricted_constraints is called; from then on it maps exactly the
\* six recognised names, each to its own sub-objective, and every other call
\* leaves it as it was.
C13_NoneUntilTotalOrBuild ==
    /\ constraint_function_map = NoneMap
    /\ [][/\ constraint_function_map' \in {NoneMap, ExpectedMap}
          /\ BuildsAsStated(last') => constraint_function_map' = ExpectedMap
          /\ ~BuildsAsStated(last') => constraint_function_map' = constraint_function_map
          /\ constraint_function_map # NoneMap =>
                constraint_function_map' = constraint_function_map]_vars

\* the calls that (re)build the function map: those above and a call of
\* setup_constraint_functions itself
Builds(l) == BuildsAsStated(l) \/ l.op = "setup"

\* C13, amended: the function map is None at construction and stays None
\* until a total_objective call passes validation,
\* build_restricted_constraints is called or setup_constraint_functions is
\* called; from then on it maps exactly the six recognised names, each to
\* its own sub-objective; a rebuild leaves it equal, and a call that builds
\* nothing (a total_objective call failing at validation, a sub-objective
\* call) leaves it as it was.
C13_FunctionMapInvariant ==
    /\ constraint_function_map = NoneMap
    /\ [][/\ constraint_function_map' \in {NoneMap, ExpectedMap}
          /\ Builds(last') => constraint_function_map' = ExpectedMap
          /\ ~Builds(last') => constraint_function_map' = constraint_function_map
          /\ constraint_function_map # NoneMap =>
                constraint_function_map' = constraint_function_map]_vars

\* a total_objective call ended at its validation call on an instance whose
\* map was built before, and the map is still the six-name map
C13_Witness ==
    /\ last.op = "total"
    /\ last.out.kind \in {"TypeError", "ValueError", "AttributeError"}
    /\ last.out.calls = {} /\ last.out.reads = {}
    /\ constraint_function_map = ExpectedMap

====
